---- MODULE Spec2Model ----
(***************************************************************************)
(* Model of the Pi-hole API client (src/api/pihole.py) and of the entry    *)
(* script (src/main.py).                                                   *)
(*                                                                         *)
(* Python strings are modelled as sequences of one-character strings, so   *)
(* that concatenation, length and parsing are computed, not assumed.       *)
(* A number (int or float) is a pair <<numerator, denominator>>.           *)
(* An Optional value is None == <<>> or Some(x) == <<x>>.                  *)
(***************************************************************************)
EXTENDS Integers, Sequences, FiniteSets, TLC

VARIABLES
    api_url,        \* self.api_url of the client
    api_key,        \* self.api_key of the client
    pc,             \* position of the running script
    env,            \* the process environment read by src/main.py
    main,           \* the module-level variables of src/main.py
    input,          \* the argument handed to a validator
    call,           \* the last method invoked, with its arguments
    last_request,   \* the last GET handed to requests.get
    response,       \* what requests.get produced for it
    api_result,     \* how make_api_call ended (returned value or raised error)
    outcome,        \* how the invoked method ended
    gets,           \* number of requests.get invocations so far
    calls           \* number of client method calls so far

vars == <<api_url, api_key, pc, env, main, input, call, last_request, response,
          api_result, outcome, gets, calls>>

----------------------------------------------------------------------------
(* Bounds of the model *)

MaxCalls == 2
MaxBodyLen == 3
MaxUrlLen == 4
MaxKeyLen == 2

----------------------------------------------------------------------------
(* Python values *)

None == <<>>
Some(x) == <<x>>
Number(n) == <<n, 1>>
Half == <<1, 2>>

Return(v) == [kind |-> "return", value |-> v, exc |-> "", msg |-> ""]
Raise(e, m) == [kind |-> "raise", value |-> None, exc |-> e, msg |-> m]
NotRun == [kind |-> "none", value |-> None, exc |-> "", msg |-> ""]

\* The exception classes involved and their base class (requests.exceptions).
ExcBase(e) ==
    CASE e = "HTTPError" -> "RequestException"
      [] e = "ConnectionError" -> "RequestException"
      [] e = "Timeout" -> "RequestException"
      [] e = "JSONDecodeError" -> "RequestException"
      [] e = "MissingSchema" -> "RequestException"
      [] e = "InvalidSchema" -> "RequestException"
      [] e = "InvalidURL" -> "RequestException"
      [] e = "RequestException" -> "Exception"
      [] e = "ValueError" -> "Exception"
      [] OTHER -> "Exception"

\* isinstance(e, cls), as an except clause decides it.
RECURSIVE IsInstance(_, _)
IsInstance(e, cls) ==
    IF e = cls THEN TRUE
    ELSE IF e = "Exception" THEN FALSE
    ELSE IsInstance(ExcBase(e), cls)

\* All strings over alphabet A of length at most n.
StringsUpTo(A, n) == UNION {[1..k -> A] : k \in 0..n}

----------------------------------------------------------------------------
(* urllib.parse.urlparse, as validate_api_url uses it (scheme and netloc) *)

LowerLetters == <<"a", "b", "c", "d", "e", "f", "g", "h", "i", "j", "k", "l", "m",
                  "n", "o", "p", "q", "r", "s", "t", "u", "v", "w", "x", "y", "z">>
UpperLetters == <<"A", "B", "C", "D", "E", "F", "G", "H", "I", "J", "K", "L", "M",
                  "N", "O", "P", "Q", "R", "S", "T", "U", "V", "W", "X", "Y", "Z">>
Digits == {"0", "1", "2", "3", "4", "5", "6", "7", "8", "9"}
Range(f) == {f[i] : i \in DOMAIN f}
IsAlpha(c) == c \in Range(LowerLetters) \cup Range(UpperLetters)
SchemeChars == Range(LowerLetters) \cup Range(UpperLetters) \cup Digits \cup {"+", "-", "."}
HexChars == Digits \cup {"a", "b", "c", "d", "e", "f", "A", "B", "C", "D", "E", "F"}
LowerChar(c) ==
    IF c \in Range(UpperLetters)
    THEN LowerLetters[CHOOSE i \in DOMAIN UpperLetters : UpperLetters[i] = c]
    ELSE c
LowerStr(s) == [i \in 1..Len(s) |-> LowerChar(s[i])]

\* str.find from a start position: the first index >= from holding a
\* character of cs, or 0 (indices are 1-based here).
FindFrom(s, cs, from) ==
    IF \E i \in from..Len(s) : s[i] \in cs
    THEN CHOOSE i \in from..Len(s) :
            s[i] \in cs /\ \A j \in from..(i - 1) : s[j] \notin cs
    ELSE 0
Find(s, c) == FindFrom(s, {c}, 1)
Contains(s, c) == Find(s, c) > 0

\* url.lstrip(_WHATWG_C0_CONTROL_OR_SPACE)
RECURSIVE LStrip(_)
LStrip(s) ==
    IF s /= <<>> /\ Head(s) \in {" ", "\t", "\n", "\r"} THEN LStrip(Tail(s)) ELSE s
\* url.replace(b, "") for b in _UNSAFE_URL_BYTES_TO_REMOVE
IsSafeChar(c) == c \notin {"\t", "\n", "\r"}
RemoveUnsafe(s) == SelectSeq(s, IsSafeChar)

\* s.split(":")
RECURSIVE SplitColon(_)
SplitColon(s) ==
    LET i == Find(s, ":")
    IN  IF i = 0 THEN <<s>>
        ELSE <<SubSeq(s, 1, i - 1)>> \o SplitColon(SubSeq(s, i + 1, Len(s)))

\* ipaddress.IPv6Address(host) accepts host: colon-separated groups of one to
\* four hex digits, eight of them or fewer around a single "::".  (Hosts with
\* an embedded IPv4 tail or a zone id are outside the inputs modelled.)
IsIPv6(host) ==
    LET parts == SplitColon(host)
        n == Len(parts)
        skips == {i \in 2..(n - 1) : parts[i] = <<>>}
        GroupOk(g) == Len(g) \in 1..4 /\ \A k \in 1..Len(g) : g[k] \in HexChars
    IN  /\ n >= 3
        /\ n <= 9
        /\ Cardinality(skips) <= 1
        /\ IF skips /= {}
           THEN LET sk == CHOOSE i \in skips : TRUE
                    hi0 == sk - 1
                    lo0 == n - sk
                    hi == IF parts[1] = <<>> THEN hi0 - 1 ELSE hi0
                    lo == IF parts[n] = <<>> THEN lo0 - 1 ELSE lo0
                IN  /\ (parts[1] = <<>> => hi = 0)
                    /\ (parts[n] = <<>> => lo = 0)
                    /\ 8 - (hi + lo) >= 1
                    /\ \A i \in 1..n : parts[i] /= <<>> => GroupOk(parts[i])
           ELSE /\ n = 8
                /\ \A i \in 1..n : GroupOk(parts[i])

\* re.match(r"\Av[a-fA-F0-9]+\..+\Z", host)
IsIPvFuture(host) ==
    \E d \in 3..(Len(host) - 1) :
        /\ host[1] = "v"
        /\ host[d] = "."
        /\ \A k \in 2..(d - 1) : host[k] \in HexChars
        /\ \A k \in (d + 1)..Len(host) : host[k] /= "\n"

\* _check_bracketed_host(hostname): TRUE when it raises ValueError.
BracketedHostInvalid(host) ==
    IF host /= <<>> /\ Head(host) = "v" THEN ~IsIPvFuture(host) ELSE ~IsIPv6(host)

\* netloc.partition('[')[2].partition(']')[0]
BracketedHost(netloc) ==
    LET after == SubSeq(netloc, Find(netloc, "[") + 1, Len(netloc))
        close == Find(after, "]")
    IN  IF close = 0 THEN after ELSE SubSeq(after, 1, close - 1)

\* urlparse(url): the scheme and the netloc of the result, or ValueError.
urlparse(url0) ==
    LET url1 == RemoveUnsafe(LStrip(url0))
        i == Find(url1, ":")
        hasScheme == /\ i > 1
                     /\ IsAlpha(url1[1])
                     /\ \A k \in 1..(i - 1) : url1[k] \in SchemeChars
        scheme == IF hasScheme THEN LowerStr(SubSeq(url1, 1, i - 1)) ELSE <<>>
        url2 == IF hasScheme THEN SubSeq(url1, i + 1, Len(url1)) ELSE url1
        hasNetloc == Len(url2) >= 2 /\ url2[1] = "/" /\ url2[2] = "/"
        delim == FindFrom(url2, {"/", "?", "#"}, 3)
        netloc == IF ~hasNetloc THEN <<>>
                  ELSE IF delim = 0 THEN SubSeq(url2, 3, Len(url2))
                  ELSE SubSeq(url2, 3, delim - 1)
        open == Contains(netloc, "[")
        shut == Contains(netloc, "]")
    IN  IF (open /\ ~shut) \/ (shut /\ ~open)
        THEN Raise("ValueError", "Invalid IPv6 URL")
        ELSE IF open /\ shut /\ BracketedHostInvalid(BracketedHost(netloc))
        THEN Raise("ValueError", "does not appear to be an IPv4 or IPv6 address")
        ELSE Return([scheme |-> scheme, netloc |-> netloc])

----------------------------------------------------------------------------
(* The transport: requests.get and the Response object *)

HTTP_OK == 200

Statuses == {HTTP_OK, 204, 403}
JsonChars == {"[", "]"}
BodyExamples == {<<"0">>, <<"[", "0", "]">>, <<"[", "0", ",", "0", "]">>,
                 <<"[", "0", ",", "]">>, <<"0", "0">>, <<"n", "o", "t">>}
Bodies == StringsUpTo(JsonChars, MaxBodyLen) \cup BodyExamples
TransportErrors == {"ConnectionError", "Timeout"}

NoResponse == [kind |-> "none", exc |-> "", status_code |-> 0, body |-> <<>>]

\* What requests.get can produce: it raises a transport error (no response),
\* or it returns a Response with a status code and a body.
NetOutcomes ==
    {[kind |-> "error", exc |-> e, status_code |-> 0, body |-> <<>>] :
        e \in TransportErrors}
    \cup
    {[kind |-> "response", exc |-> "", status_code |-> s, body |-> b] :
        s \in Statuses, b \in Bodies}

HttpSchemes == {<<"h", "t", "t", "p">>, <<"h", "t", "t", "p", "s">>}

\* requests.get(url, ...): a URL that requests cannot send (no scheme, a
\* scheme without adapter, no host) raises before anything is sent; any other
\* URL is sent and the network decides.
requests_get(url) ==
    LET u == urlparse(url)
        err(e) == {[kind |-> "error", exc |-> e, status_code |-> 0, body |-> <<>>]}
    IN  IF u.kind = "raise" THEN err("InvalidURL")
        ELSE IF u.value.scheme = <<>> THEN err("MissingSchema")
        ELSE IF u.value.scheme \notin HttpSchemes THEN err("InvalidSchema")
        ELSE IF u.value.netloc = <<>> THEN err("InvalidURL")
        ELSE NetOutcomes

\* Parsed JSON values.
JNumber(n) == [type |-> "number", n |-> n, items |-> <<>>]
JArray(items) == [type |-> "array", n |-> 0, items |-> items]

ParseFail == [ok |-> FALSE, val |-> JNumber(0), rest |-> <<>>]
ParseOk(v, rest) == [ok |-> TRUE, val |-> v, rest |-> rest]

\* Items of an array after its first value: ("," value)* "]".
\* ParseValue reads one JSON value off the front of s (the JSON grammar
\* restricted to the number 0 and arrays).
RECURSIVE ParseValue(_), ParseItems(_, _)
ParseItems(acc, s) ==
    IF s = <<>> THEN ParseFail
    ELSE IF Head(s) = "]" THEN ParseOk(JArray(acc), Tail(s))
    ELSE IF Head(s) = "," THEN
        LET r == ParseValue(Tail(s))
        IN  IF r.ok THEN ParseItems(Append(acc, r.val), r.rest) ELSE ParseFail
    ELSE ParseFail
ParseValue(s) ==
    IF s = <<>> THEN ParseFail
    ELSE IF Head(s) = "0" THEN ParseOk(JNumber(0), Tail(s))
    ELSE IF Head(s) = "[" THEN
        IF Tail(s) /= <<>> /\ Head(Tail(s)) = "]"
        THEN ParseOk(JArray(<<>>), Tail(Tail(s)))
        ELSE LET r == ParseValue(Tail(s))
             IN  IF r.ok THEN ParseItems(<<r.val>>, r.rest) ELSE ParseFail
    ELSE ParseFail

\* response.json(): the parsed body, or JSONDecodeError (also on trailing data).
response_json(body) ==
    LET r == ParseValue(body)
    IN  IF r.ok /\ r.rest = <<>> THEN Return(r.val)
        ELSE Raise("JSONDecodeError", "Expecting value")

\* response.raise_for_status(): HTTPError for 4xx and 5xx, else nothing.
raise_for_status(status_code) ==
    IF status_code >= 400 /\ status_code < 600
    THEN Raise("HTTPError", ToString(status_code) \o " Error")
    ELSE Return(None)

----------------------------------------------------------------------------
(* class API *)

\* url = f"{self.api_url}{endpoint}"
\* (BuildUrlNormalized: the variant that would merge a doubled slash)
BuildUrlNormalized(self_api_url, endpoint) ==
    IF /\ self_api_url /= <<>> /\ endpoint /= <<>>
       /\ self_api_url[Len(self_api_url)] = "/" /\ Head(endpoint) = "/"
    THEN self_api_url \o Tail(endpoint)
    ELSE self_api_url \o endpoint
BuildUrl(self_api_url, endpoint) == self_api_url \o endpoint

\* The GET handed to requests.get(url, params=params, headers=headers).
NoRequest == [url |-> <<>>, params |-> None, headers |-> None]
ApiRequest(self_api_url, endpoint, params, headers) ==
    [url |-> BuildUrl(self_api_url, endpoint), params |-> params, headers |-> headers]

\* requests.get is invoked once per make_api_call.
\* (IssueGetWithRetry: the variant that would send the request twice)
IssueGetWithRetry(n) == n + 2
IssueGet(n) == n + 1

\* if response.status_code == 200
\* (StatusOkAny2xx: the variant that would accept every 2xx status)
StatusOkAny2xx(status_code) == status_code >= 200 /\ status_code < 300
StatusOk(status_code) == status_code = HTTP_OK

\* The except clause of make_api_call: except requests.exceptions.JSONDecodeError
CaughtInCall(e) == IsInstance(e, "JSONDecodeError")

\* The rest of make_api_call once requests.get has produced net.
\* (make_api_call_swallow: the variant that would answer an empty array
\* instead of raising on a transport error or an unparsable body)
make_api_call_swallow(net) ==
    IF net.kind = "error" THEN Return(JArray(<<>>))
    ELSE IF StatusOk(net.status_code) THEN
        LET j == response_json(net.body)
        IN  IF j.kind = "raise" THEN Return(JArray(<<>>)) ELSE j
    ELSE Raise("HTTPError",
               "API call failed with status code "
                   \o ToString(net.status_code) \o ".")
make_api_call(net) ==
    IF net.kind = "error" THEN Raise(net.exc, "")
    ELSE IF StatusOk(net.status_code) THEN
        LET st == raise_for_status(net.status_code)
            j == response_json(net.body)
            tried == IF st.kind = "raise" THEN st ELSE j
        IN  IF tried.kind = "raise" /\ CaughtInCall(tried.exc)
            THEN Raise("ValueError", "Invalid JSON response.")
            ELSE tried
    ELSE Raise("HTTPError",
               "API call failed with status code "
                   \o ToString(net.status_code) \o ".")

\* self.make_api_call("/admin/api.php", params)
DisableEndpoint == <<"/", "a", "d", "m", "i", "n", "/", "a", "p", "i", ".", "p", "h", "p">>

\* params = {"disable": disable_time, "auth": self.api_key}
\* (disable_params_clamped: the variant that would clamp a negative time to 0)
Max2(a, b) == IF a >= b THEN a ELSE b
disable_params_clamped(disable_time, self_api_key) ==
    [disable |-> <<Max2(disable_time[1], 0), disable_time[2]>>, auth |-> self_api_key]
disable_params(disable_time, self_api_key) ==
    [disable |-> disable_time, auth |-> self_api_key]

\* except requests.exceptions.HTTPError
\* (CaughtInDisableAny: the variant that would catch every exception)
CaughtInDisableAny(e) == IsInstance(e, "Exception")
CaughtInDisable(e) == IsInstance(e, "HTTPError")

\* return True, reached when make_api_call returned json
\* (DisableSuccessChecksBody: the variant that would inspect the body)
DisableSuccessChecksBody(json) == json /= JArray(<<>>)
DisableSuccess(json) == TRUE

\* The try block of disable_adblocker, given how make_api_call ended.
disable_adblocker(r) ==
    IF r.kind = "return" THEN Return(DisableSuccess(r.value))
    ELSE IF CaughtInDisable(r.exc) THEN Return(FALSE)
    ELSE r

\* bool(s) of a str
Truthy(s) == s /= <<>>

\* return all([parsed_url.scheme, parsed_url.netloc])
validate_api_url(url) ==
    LET parsed_url == urlparse(url)
    IN  IF parsed_url.kind = "raise" THEN parsed_url
        ELSE Return(Truthy(parsed_url.value.scheme) /\ Truthy(parsed_url.value.netloc))

\* return len(api_key) > 0
\* (validate_api_key_stripped: the variant that would trim the key first)
validate_api_key_stripped(key) == Return(Len(LStrip(key)) > 0)
validate_api_key(key) == Return(Len(key) > 0)

----------------------------------------------------------------------------
(* A client in use: any sequence of calls on one constructed client *)

UrlPihole == <<"h", "t", "t", "p", ":", "/", "/", "p", "i", ".", "h">>
Configs == {<<UrlPihole, <<"k">>>>, <<Append(UrlPihole, "/"), <<"a", "b">>>>}
\* <<endpoint, params, headers>> of a make_api_call; None is the default.
CallArgs == {<<DisableEndpoint, Some([auth |-> <<"x">>]), None>>,
             <<DisableEndpoint, None, Some([Accept |-> <<"j">>])>>,
             <<<<"x">>, Some([auth |-> <<"x">>]), Some([Accept |-> <<"j">>])>>}
DisableTimes == {Number(-1), Number(0), Number(30), Half}

NoMain == [url |-> <<>>, pi_hole_api_key |-> <<>>, disable_time |-> None]
NoCall == [op |-> "none", endpoint |-> <<>>, params |-> None,
           headers |-> None, disable_time |-> None]

\* API.__init__ has run: self.api_url and self.api_key are stored.
Init ==
    /\ \E c \in Configs : api_url = c[1] /\ api_key = c[2]
    /\ pc = "ready"
    /\ env = [url |-> <<>>, key |-> <<>>]
    /\ main = NoMain
    /\ input = <<>>
    /\ call = NoCall
    /\ last_request = NoRequest
    /\ response = NoResponse
    /\ api_result = NotRun
    /\ outcome = NotRun
    /\ gets = 0
    /\ calls = 0

\* make_api_call as a step of the program: the request is built and handed
\* to requests.get once, and the call ends as make_api_call(net) says.
DoApiCall(endpoint, params, headers) ==
    LET req == ApiRequest(api_url, endpoint, params, headers)
    IN  /\ last_request' = req
        /\ gets' = IssueGet(gets)
        /\ \E net \in requests_get(req.url) :
              /\ response' = net
              /\ api_result' = make_api_call(net)

\* disable_adblocker as a step of the program.
DoDisableAdblocker(disable_time) ==
    /\ DoApiCall(DisableEndpoint, Some(disable_params(disable_time, api_key)), None)
    /\ outcome' = disable_adblocker(api_result')

\* hole.make_api_call(endpoint, params, headers)
MakeApiCall(endpoint, params, headers) ==
    /\ pc = "ready"
    /\ calls < MaxCalls
    /\ call' = [op |-> "make_api_call", endpoint |-> endpoint, params |-> params,
                headers |-> headers, disable_time |-> None]
    /\ DoApiCall(endpoint, params, headers)
    /\ outcome' = api_result'
    /\ calls' = calls + 1
    /\ UNCHANGED <<api_url, api_key, pc, env, main, input>>

\* hole.disable_adblocker(disable_time)
DisableAdblocker(disable_time) ==
    /\ pc = "ready"
    /\ calls < MaxCalls
    /\ call' = [op |-> "disable_adblocker", endpoint |-> <<>>, params |-> None,
                headers |-> None, disable_time |-> Some(disable_time)]
    /\ DoDisableAdblocker(disable_time)
    /\ calls' = calls + 1
    /\ UNCHANGED <<api_url, api_key, pc, env, main, input>>

Next ==
    \/ \E a \in CallArgs : MakeApiCall(a[1], a[2], a[3])
    \/ \E t \in DisableTimes : DisableAdblocker(t)

Spec == Init /\ [][Next]_vars

----------------------------------------------------------------------------
(* The static validators applied to a string *)

UrlChars == {"a", ":", "/", "[", "]", " "}
KeyChars == {"k", " "}
UrlExample1 == <<"h", "t", "t", "p", ":", "/", "/", "p", "i", "h", "o", "l", "e",
                 ".", "l", "o", "c", "a", "l">>
UrlExample2 == <<"h", "t", "t", "p", "s", ":", "/", "/", "1", "0", ".", "0", ".",
                 "0", ".", "5", ":", "8", "0", "8", "0">>
UrlExample3 == <<"p", "i", "h", "o", "l", "e", ".", "l", "o", "c", "a", "l">>
UrlExample4 == <<"h", "t", "t", "p", ":", "/", "/">>
UrlExample5 == <<"h", "t", "t", "p", ":", "/", "/", "[", ":", ":", "1", "]">>
UrlExample6 == <<"h", "t", "t", "p", ":", "/", "/", "[", ":", ":", "1">>
KeyExample1 == <<"a", "b", "c", "1", "2", "3">>
ValidatorInputs ==
    StringsUpTo(UrlChars, MaxUrlLen) \cup StringsUpTo(KeyChars, MaxKeyLen)
    \cup {UrlExample1, UrlExample2, UrlExample3, UrlExample4, UrlExample5,
          UrlExample6, KeyExample1}

\* A string is handed to the static validators.
ValidatorInit ==
    /\ input \in ValidatorInputs
    /\ pc = "validate"
    /\ api_url = <<>>
    /\ api_key = <<>>
    /\ env = [url |-> <<>>, key |-> <<>>]
    /\ main = NoMain
    /\ call = NoCall
    /\ last_request = NoRequest
    /\ response = NoResponse
    /\ api_result = NotRun
    /\ outcome = NotRun
    /\ gets = 0
    /\ calls = 0

\* API.validate_api_url(input)
ValidateApiUrl ==
    /\ pc = "validate"
    /\ call' = [NoCall EXCEPT !.op = "validate_api_url"]
    /\ outcome' = validate_api_url(input)
    /\ UNCHANGED <<api_url, api_key, pc, env, main, input, last_request, response,
                   api_result, gets, calls>>

\* API.validate_api_key(input)
ValidateApiKey ==
    /\ pc = "validate"
    /\ call' = [NoCall EXCEPT !.op = "validate_api_key"]
    /\ outcome' = validate_api_key(input)
    /\ UNCHANGED <<api_url, api_key, pc, env, main, input, last_request, response,
                   api_result, gets, calls>>

ValidatorNext == ValidateApiUrl \/ ValidateApiKey

ValidatorSpec == ValidatorInit /\ [][ValidatorNext]_vars

----------------------------------------------------------------------------
(* The entry script src/main.py, run once against an environment *)

MainDisableTime == 30

EnvUrls == {UrlPihole, Append(UrlPihole, "/"), <<"p", "i", ".", "h">>, <<>>}
EnvKeys == {<<"k">>, <<" ">>, <<>>}

\* The process starts with PI-HOLE-URL and PI-HOLE-API-KEY set to some strings.
MainInit ==
    /\ env \in [url : EnvUrls, key : EnvKeys]
    /\ pc = "start"
    /\ main = NoMain
    /\ api_url = <<>>
    /\ api_key = <<>>
    /\ input = <<>>
    /\ call = NoCall
    /\ last_request = NoRequest
    /\ response = NoResponse
    /\ api_result = NotRun
    /\ outcome = NotRun
    /\ gets = 0
    /\ calls = 0

\* load_dotenv(); pi_hole_api_key = os.getenv(...); url = os.getenv(...);
\* disable_time = 30
MainReadEnv ==
    /\ pc = "start"
    /\ main' = [url |-> env.url, pi_hole_api_key |-> env.key,
                disable_time |-> Some(Number(MainDisableTime))]
    /\ pc' = "construct"
    /\ UNCHANGED <<api_url, api_key, env, input, call, last_request, response,
                   api_result, outcome, gets, calls>>

\* hole = pihole.API(url, pi_hole_api_key)
MainConstruct ==
    /\ pc = "construct"
    /\ api_url' = main.url
    /\ api_key' = main.pi_hole_api_key
    /\ pc' = "disable"
    /\ UNCHANGED <<env, main, input, call, last_request, response, api_result,
                   outcome, gets, calls>>

\* hole.disable_adblocker(disable_time); an error it lets through ends the
\* script with a traceback.
MainDisable ==
    /\ pc = "disable"
    /\ call' = [op |-> "disable_adblocker", endpoint |-> <<>>, params |-> None,
                headers |-> None, disable_time |-> main.disable_time]
    /\ DoDisableAdblocker(main.disable_time[1])
    /\ calls' = calls + 1
    /\ pc' = IF outcome'.kind = "raise" THEN "traceback" ELSE "exit"
    /\ UNCHANGED <<api_url, api_key, env, main, input>>

MainNext == MainReadEnv \/ MainConstruct \/ MainDisable

MainSpec == MainInit /\ [][MainNext]_vars

----------------------------------------------------------------------------
(* What the claims speak of *)

\* The JSON texts of nesting depth at most d over the number 0 and arrays of
\* one or two items, each paired with the value it denotes (built up from the
\* grammar, not by parsing).
RECURSIVE JsonPairs(_)
JsonPairs(d) ==
    IF d = 0 THEN {<<<<"0">>, JNumber(0)>>, <<<<"[", "]">>, JArray(<<>>)>>}
    ELSE LET P == JsonPairs(d - 1)
         IN  P \cup {<<<<"[">> \o v[1] \o <<"]">>, JArray(<<v[2]>>)>> : v \in P}
               \cup {<<<<"[">> \o v[1] \o <<",">> \o w[1] \o <<"]">>,
                       JArray(<<v[2], w[2]>>)>> : v \in P, w \in P}
JsonTexts == JsonPairs(MaxBodyLen \div 2)
IsJsonText(b) == \E p \in JsonTexts : p[1] = b
JsonValueOf(b) == (CHOOSE p \in JsonTexts : p[1] = b)[2]

GotResponse == response.kind = "response"
GotOkJson ==
    GotResponse /\ response.status_code = 200 /\ IsJsonText(response.body)
GotOkNotJson ==
    GotResponse /\ response.status_code = 200 /\ ~IsJsonText(response.body)
GotOtherStatus == GotResponse /\ response.status_code /= 200
GotTransportError == response.kind = "error"
ReturnedBool(b) == outcome.kind = "return" /\ outcome.value = b
IsDisableCall == call.op = "disable_adblocker"
IsApiCall == call.op = "make_api_call"
AdminApiPhp == <<"/", "a", "d", "m", "i", "n", "/", "a", "p", "i", ".", "p", "h", "p">>

\* C1: disable_adblocker returns true whenever the underlying make_api_call
\* completes without an HTTPError and false whenever it raises HTTPError; so it
\* returns true for status 200 with a body that parses as JSON and false for
\* every other status, whatever the body and the disable_time.
C1_DisableResult ==
    IsDisableCall =>
        /\ (api_result.kind = "return" => ReturnedBool(TRUE))
        /\ (api_result.kind = "raise" /\ api_result.exc = "HTTPError"
                => ReturnedBool(FALSE))
        /\ (GotOkJson => ReturnedBool(TRUE))
        /\ (GotOtherStatus => ReturnedBool(FALSE))
C1_Witness ==
    /\ IsDisableCall
    /\ GotOtherStatus /\ response.status_code = 403
    /\ IsJsonText(response.body)
    /\ ReturnedBool(FALSE)

C4_OneGetPerCall ==
    /\ gets = calls
    /\ (calls > 0 =>
          /\ last_request.url =
                api_url \o (IF IsDisableCall THEN AdminApiPhp ELSE call.endpoint)
          /\ (api_result.kind = "return") = GotOkJson
          /\ (IsDisableCall =>
                (outcome.kind = "return") = (GotOkJson \/ GotOtherStatus)))
C4_Witness ==
    /\ calls >= 2
    /\ gets = calls
    /\ GotTransportError

\* C5: for every disable_time (zero, negative and fractional included) the
\* request of disable_adblocker goes to "/admin/api.php" with exactly the
\* parameters disable = disable_time, as given, and auth = the api_key of the
\* client, and no headers.
C5_DisableRequest ==
    IsDisableCall =>
        /\ gets = calls
        /\ last_request.url = api_url \o AdminApiPhp
        /\ last_request.params =
              Some([disable |-> call.disable_time[1], auth |-> api_key])
        /\ last_request.headers = None
C5_Witness ==
    /\ IsDisableCall
    /\ call.disable_time = Some(Number(-1))
    /\ last_request.params[1].disable = Number(-1)
    /\ GotResponse

\* C6: make_api_call sends its GET to exactly base_url followed by endpoint,
\* slashes neither added nor removed, with params and headers as given.
C6_UrlIsConcatenation ==
    IsApiCall =>
        last_request = [url |-> api_url \o call.endpoint,
                        params |-> call.params,
                        headers |-> call.headers]
C6_Witness ==
    /\ IsApiCall
    /\ api_url[Len(api_url)] = "/"
    /\ Head(call.endpoint) = "/"
    /\ last_request.url[Len(api_url)] = "/"
    /\ last_request.url[Len(api_url) + 1] = "/"
    /\ Len(last_request.url) = Len(api_url) + Len(call.endpoint)

\* C10: the result of disable_adblocker does not depend on what the JSON body
\* says: of any two calls answered with status 200 and a body that parses,
\* both return true, whichever the two bodies.
C10_BodyContentIgnored ==
    [][(/\ IsDisableCall /\ GotOkJson
        /\ IsDisableCall' /\ GotOkJson')
          => /\ outcome' = outcome
             /\ ReturnedBool(TRUE)'
             /\ api_result'.value = JsonValueOf(response'.body)]_vars
C10_Witness ==
    /\ calls >= 2
    /\ IsDisableCall
    /\ GotOkJson /\ response.body = <<"[", "]">>
    /\ ReturnedBool(TRUE)

\* C9: validate_api_key returns true iff the key is longer than zero
\* characters: nothing is trimmed, so a key of spaces is valid, and only the
\* empty string gives false.
C9_KeyValidIffNonEmpty ==
    call.op = "validate_api_key" =>
        /\ outcome.kind = "return"
        /\ outcome.value = (input /= <<>>)
C9_Witness ==
    /\ call.op = "validate_api_key"
    /\ input = <<" ">>
    /\ ReturnedBool(TRUE)

\* C7: validate_api_url never raises: for every string it returns a boolean,
\* true iff the parsed URL has a non-empty scheme and a non-empty network
\* location, and a string that fails to parse gives false.
C7_UrlValidatorNeverRaises ==
    call.op = "validate_api_url" =>
        /\ outcome.kind = "return"
        /\ outcome.value \in BOOLEAN
        /\ outcome.value =
              LET u == urlparse(input)
              IN  /\ u.kind = "return"
                  /\ u.value.scheme /= <<>>
                  /\ u.value.netloc /= <<>>

\* C8: on every run of the entry point no HTTP request goes out unless the
\* configured URL and key have been accepted by validate_api_url and
\* validate_api_key.
RequestWentOut ==
    \/ GotResponse
    \/ (GotTransportError /\ response.exc \in TransportErrors)
C8_ValidatedBeforeRequest ==
    RequestWentOut =>
        /\ validate_api_url(api_url) = Return(TRUE)
        /\ validate_api_key(api_key) = Return(TRUE)

====
